---- MODULE Spec2Model ----
(***************************************************************************)
(* GenerateLandscape (generation.cpp): a 16-bit grayscale height map is    *)
(* loaded, padded with zeros to a square power-of-two grid, and handed to  *)
(* a landscape actor together with component sizes and scale factors.      *)
(* One action per statement group of the function; the copy loop is        *)
(* modelled one cell at a time.                                            *)
(***************************************************************************)
EXTENDS Integers, Sequences, FiniteSets, TLC

\* ---------------------------------------------------------------- bounds
MaxW == 4          \* small source widths 1..MaxW
MaxH == 5          \* small source heights 1..MaxH
MaxBlocks == 4     \* NumBlocks argument 1..MaxBlocks
NumSeeds == 2      \* number of distinct sample contents per image size

\* ------------------------------------------------------ program constants
MaxInt32 == 2147483647
MinComponentQuads == 63
BlockSizeInUnrealUnits == 50000
DesiredScale == 25
SampleRange == 65536

\* ----------------------------------------------------------------- inputs
\* Image sizes whose decoded samples fit the model: every small size, plus
\* wide single-row images that reach the 64- and 128-sample grids.
SmallDims == (1..MaxW) \X (1..MaxH)
WideDims == {<<33, 1>>, <<65, 1>>}
\* Widths around the point where the rounded size leaves the int32 range;
\* their raw samples exceed what a TArray<uint8> can hold, so GetRaw fails.
HugeWidths == {1073741824, 1073741825, MaxInt32}
HugeDims == HugeWidths \X {1}
ImageDims == SmallDims \cup WideDims \cup HugeDims

SeedsFor(w) == IF w <= MaxW THEN 1..NumSeeds ELSE {1}

\* Sample i (0-based, row-major) of the decoded image with content `seed`:
\* all samples of one image are distinct and non-zero.
SampleAt(seed, i) == (((seed * 21845) % SampleRange) * (i + 1)) % SampleRange

VARIABLES
    pc,                     \* position in GenerateLandscape
    World,                  \* UWorld* argument: TRUE = non-null
    NumBlocks,              \* int32 argument
    WithEditor,             \* WITH_EDITOR build
    ImageWrapper,           \* [Width, Height] of the wrapped image
    OriginalSizeX, OriginalSizeY, SizeX, SizeY,
    SrcData,                \* decoded uint16 samples (RawImageData)
    HeightData,             \* TArray<uint16>
    X, Y,                   \* loop counters
    ComponentQuads, SubsectionQuads, NumSubsections,
    GridSize, TotalSizeInUnrealUnits,
    HorizontalScaleFactor, VerticalScaleFactor,
    Landscape,              \* the spawned ALandscape actor
    hostCalls,              \* engine calls made so far, in order
    LogTemp                 \* UE_LOG lines, in order

vars == <<pc, World, NumBlocks, WithEditor, ImageWrapper, OriginalSizeX,
          OriginalSizeY, SizeX, SizeY, SrcData, HeightData, X, Y,
          ComponentQuads, SubsectionQuads, NumSubsections, GridSize,
          TotalSizeInUnrealUnits, HorizontalScaleFactor, VerticalScaleFactor,
          Landscape, hostCalls, LogTemp>>

\* --------------------------------------------------------- pure functions
Max(a, b) == IF a >= b THEN a ELSE b

\* floor(log2(m)) for 1 <= m <= MaxInt32
FloorLogTwo(m) == CHOOSE k \in 0..30 : 2^k <= m /\ (k = 30 \/ m < 2^(k+1))

\* FMath::CeilLogTwo(uint32): 0 for Arg <= 1, else 32 - clz(Arg - 1)
CeilLogTwo(Arg) == IF Arg <= 1 THEN 0 ELSE FloorLogTwo(Arg - 1) + 1

\* (uint32)(1 << n) assigned to an int32: 2^31 becomes -2^31
ShiftToInt32(n) == IF n >= 31 THEN (-1073741824) - 1073741824 ELSE 2^n

\* a plausible slip: always go to the next strictly larger power of two
RoundUpPastPowerOfTwo(Arg) == ShiftToInt32(FloorLogTwo(Arg) + 1)

\* const int32 SizeX = FMath::RoundUpToPowerOfTwo(OriginalSizeX)
RoundUpToPowerOfTwo(Arg) == ShiftToInt32(CeilLogTwo(Arg))

\* floor(sqrt(m))
ISqrt(m) == CHOOSE r \in 0..m : r * r <= m /\ m < (r + 1) * (r + 1)

\* a plausible slip: truncating instead of rounding
TruncSqrt(n) == ISqrt(n)

\* FMath::RoundToInt(FMath::Sqrt((float)n)) = floor(sqrt(n) + 0.5)
\*   = floor((floor(2*sqrt(n)) + 1) / 2)
RoundToIntSqrt(n) == (ISqrt(4 * n) + 1) \div 2

\* a plausible slip: no 63-quad floor
ComponentQuadsUnfloored(sizeX) == sizeX - 1

\* FMath::Max(63, SizeX - 1)
ComponentQuadsFor(sizeX) == Max(MinComponentQuads, sizeX - 1)

RECURSIVE GCD(_, _)
GCD(a, b) == IF b = 0 THEN a ELSE GCD(b, a % b)

\* exact value of the float quotient a / b (b a power of two, a >= 0)
FloatDiv(a, b) == LET g == GCD(a, b) IN [num |-> a \div g, den |-> b \div g]

\* a plausible slip: writing with the source stride
WriteIndexSourceStride(y, x) == y * OriginalSizeX + x

\* HeightData[Y * SizeX + X]
WriteIndex(y, x) == y * SizeX + x

\* SrcData[Y * OriginalSizeX + X]
ReadIndex(y, x) == y * OriginalSizeX + x

\* GetRaw fills a TArray<uint8> (int32 count) with 2 bytes per sample
RawFits(w, h) == w <= (MaxInt32 \div 2) \div h

NoLandscape == [spawned |-> FALSE, ComponentSizeQuads |-> 0,
                SubsectionSizeQuads |-> 0, NumSubsections |-> 0,
                Scale |-> <<>>, Import |-> <<>>, hasInfo |-> FALSE]

\* ------------------------------------------------------------------- Init
Init ==
    /\ pc = "Entry"
    /\ World \in BOOLEAN
    /\ NumBlocks \in 1..MaxBlocks
    /\ WithEditor \in BOOLEAN
    /\ ImageWrapper = [Width |-> 0, Height |-> 0]
    /\ OriginalSizeX = 0 /\ OriginalSizeY = 0 /\ SizeX = 0 /\ SizeY = 0
    /\ SrcData = <<>> /\ HeightData = <<>>
    /\ X = 0 /\ Y = 0
    /\ ComponentQuads = 0 /\ SubsectionQuads = 0 /\ NumSubsections = 0
    /\ GridSize = 0 /\ TotalSizeInUnrealUnits = 0
    /\ HorizontalScaleFactor = [num |-> 0, den |-> 1]
    /\ VerticalScaleFactor = 0
    /\ Landscape = NoLandscape
    /\ hostCalls = <<>>
    /\ LogTemp = <<>>

\* ---------------------------------------------------------------- actions
imageVars == <<ImageWrapper, OriginalSizeX, OriginalSizeY, SizeX, SizeY, SrcData>>
gridVars == <<HeightData, X, Y>>
paramVars == <<ComponentQuads, SubsectionQuads, NumSubsections>>
scaleVars == <<GridSize, TotalSizeInUnrealUnits, HorizontalScaleFactor, VerticalScaleFactor>>
argVars == <<World, NumBlocks, WithEditor>>

\* if (!World) return;
WorldMissing ==
    /\ pc = "Entry" /\ ~World
    /\ pc' = "Done"
    /\ UNCHANGED <<argVars, imageVars, gridVars, paramVars, scaleVars,
                   Landscape, hostCalls, LogTemp>>

\* #else branch of WITH_EDITOR
NotEditorBuild ==
    /\ pc = "Entry" /\ World /\ ~WithEditor
    /\ pc' = "Done"
    /\ LogTemp' = Append(LogTemp, "Warning: editor only")
    /\ UNCHANGED <<argVars, imageVars, gridVars, paramVars, scaleVars,
                   Landscape, hostCalls>>

\* a plausible slip: no null check on World
EnterUnchecked ==
    /\ pc = "Entry" /\ WithEditor
    /\ pc' = "LoadFile"
    /\ UNCHANGED <<argVars, imageVars, gridVars, paramVars, scaleVars,
                   Landscape, hostCalls, LogTemp>>

Enter ==
    /\ pc = "Entry" /\ World /\ WithEditor
    /\ pc' = "LoadFile"
    /\ UNCHANGED <<argVars, imageVars, gridVars, paramVars, scaleVars,
                   Landscape, hostCalls, LogTemp>>

\* a plausible slip: the failure is logged but the function does not return
LoadFileFailFallThrough ==
    /\ pc = "LoadFile"
    /\ hostCalls' = Append(hostCalls, "LoadFileToArray")
    /\ LogTemp' = Append(LogTemp, "Error: load file")
    /\ pc' = "SetCompressed"
    /\ UNCHANGED <<argVars, imageVars, gridVars, paramVars, scaleVars, Landscape>>

\* FFileHelper::LoadFileToArray fails
LoadFileFail ==
    /\ pc = "LoadFile"
    /\ hostCalls' = Append(hostCalls, "LoadFileToArray")
    /\ LogTemp' = Append(LogTemp, "Error: load file")
    /\ pc' = "Done"
    /\ UNCHANGED <<argVars, imageVars, gridVars, paramVars, scaleVars, Landscape>>

LoadFileOk ==
    /\ pc = "LoadFile"
    /\ hostCalls' = Append(hostCalls, "LoadFileToArray")
    /\ pc' = "SetCompressed"
    /\ UNCHANGED <<argVars, imageVars, gridVars, paramVars, scaleVars,
                   Landscape, LogTemp>>

\* !ImageWrapper.IsValid() || !ImageWrapper->SetCompressed(...)
SetCompressedFail ==
    /\ pc = "SetCompressed"
    /\ hostCalls' = Append(hostCalls, "SetCompressed")
    /\ LogTemp' = Append(LogTemp, "Error: image wrapper")
    /\ pc' = "Done"
    /\ UNCHANGED <<argVars, imageVars, gridVars, paramVars, scaleVars, Landscape>>

SetCompressedOk ==
    /\ pc = "SetCompressed"
    /\ \E d \in ImageDims : ImageWrapper' = [Width |-> d[1], Height |-> d[2]]
    /\ hostCalls' = Append(hostCalls, "SetCompressed")
    /\ pc' = "Dimensions"
    /\ UNCHANGED <<argVars, OriginalSizeX, OriginalSizeY, SizeX, SizeY, SrcData,
                   gridVars, paramVars, scaleVars, Landscape, LogTemp>>

\* a plausible slip: rounding each axis on its own
ReadDimensionsPerAxis ==
    /\ pc = "Dimensions"
    /\ OriginalSizeX' = ImageWrapper.Width
    /\ OriginalSizeY' = ImageWrapper.Height
    /\ SizeX' = RoundUpToPowerOfTwo(ImageWrapper.Width)
    /\ SizeY' = RoundUpToPowerOfTwo(ImageWrapper.Height)
    /\ LogTemp' = Append(LogTemp, "Log: sizes")
    /\ pc' = "GetRaw"
    /\ UNCHANGED <<argVars, ImageWrapper, SrcData, gridVars, paramVars,
                   scaleVars, Landscape, hostCalls>>

ReadDimensions ==
    /\ pc = "Dimensions"
    /\ OriginalSizeX' = ImageWrapper.Width
    /\ OriginalSizeY' = ImageWrapper.Height
    /\ SizeX' = RoundUpToPowerOfTwo(ImageWrapper.Width)
    /\ SizeY' = SizeX'
    /\ LogTemp' = Append(LogTemp, "Log: sizes")
    /\ pc' = "GetRaw"
    /\ UNCHANGED <<argVars, ImageWrapper, SrcData, gridVars, paramVars,
                   scaleVars, Landscape, hostCalls>>

\* GetRaw(ERGBFormat::Gray, 16, ...) returns false
GetRawFail ==
    /\ pc = "GetRaw"
    /\ hostCalls' = Append(hostCalls, "GetRaw")
    /\ LogTemp' = Append(LogTemp, "Error: raw data")
    /\ pc' = "Done"
    /\ UNCHANGED <<argVars, imageVars, gridVars, paramVars, scaleVars, Landscape>>

GetRawOk ==
    /\ pc = "GetRaw"
    /\ RawFits(OriginalSizeX, OriginalSizeY)
    /\ \E seed \in SeedsFor(OriginalSizeX) :
         SrcData' = [i \in 1..(OriginalSizeX * OriginalSizeY) |-> SampleAt(seed, i - 1)]
    /\ hostCalls' = Append(hostCalls, "GetRaw")
    /\ pc' = "Alloc"
    /\ UNCHANGED <<argVars, ImageWrapper, OriginalSizeX, OriginalSizeY, SizeX,
                   SizeY, gridVars, paramVars, scaleVars, Landscape, LogTemp>>

\* HeightData.SetNum(SizeX * SizeY); Memzero; loop initialisation
Alloc ==
    /\ pc = "Alloc"
    /\ HeightData' = [i \in 1..(SizeX * SizeY) |-> 0]
    /\ Y' = 0 /\ X' = 0
    /\ pc' = "Copy"
    /\ UNCHANGED <<argVars, imageVars, paramVars, scaleVars, Landscape,
                   hostCalls, LogTemp>>

InRange(i, arr) == 0 <= i /\ i < Len(arr)

\* HeightData[Y * SizeX + X] = SrcData[Y * OriginalSizeX + X]; X++
CopyCell ==
    /\ pc = "Copy" /\ Y < OriginalSizeY /\ X < OriginalSizeX
    /\ InRange(WriteIndex(Y, X), HeightData)
    /\ InRange(ReadIndex(Y, X), SrcData)
    /\ HeightData' = [HeightData EXCEPT ![WriteIndex(Y, X) + 1] =
                                         SrcData[ReadIndex(Y, X) + 1]]
    /\ X' = X + 1
    /\ UNCHANGED <<pc, argVars, imageVars, Y, paramVars, scaleVars, Landscape,
                   hostCalls, LogTemp>>

\* TArray::operator[] range check fails: fatal error
CopyOutOfRange ==
    /\ pc = "Copy" /\ Y < OriginalSizeY /\ X < OriginalSizeX
    /\ ~InRange(WriteIndex(Y, X), HeightData)
    /\ pc' = "Crashed"
    /\ UNCHANGED <<argVars, imageVars, gridVars, paramVars, scaleVars,
                   Landscape, hostCalls, LogTemp>>

\* inner loop ends; Y++
NextRow ==
    /\ pc = "Copy" /\ Y < OriginalSizeY /\ X >= OriginalSizeX
    /\ Y' = Y + 1 /\ X' = 0
    /\ UNCHANGED <<pc, argVars, imageVars, HeightData, paramVars, scaleVars,
                   Landscape, hostCalls, LogTemp>>

\* outer loop ends
CopyDone ==
    /\ pc = "Copy" /\ Y >= OriginalSizeY
    /\ pc' = "Params"
    /\ UNCHANGED <<argVars, imageVars, gridVars, paramVars, scaleVars,
                   Landscape, hostCalls, LogTemp>>

DeriveParams ==
    /\ pc = "Params"
    /\ ComponentQuads' = ComponentQuadsFor(SizeX)
    /\ SubsectionQuads' = ComponentQuads'
    /\ NumSubsections' = 1
    /\ pc' = "Scales"
    /\ UNCHANGED <<argVars, imageVars, gridVars, scaleVars, Landscape,
                   hostCalls, LogTemp>>

ComputeScales ==
    /\ pc = "Scales"
    /\ GridSize' = RoundToIntSqrt(NumBlocks)
    /\ TotalSizeInUnrealUnits' = BlockSizeInUnrealUnits * GridSize'
    /\ HorizontalScaleFactor' = FloatDiv(TotalSizeInUnrealUnits', SizeX)
    /\ VerticalScaleFactor' = DesiredScale
    /\ LogTemp' = Append(LogTemp, "Log: scales")
    /\ pc' = "Spawn"
    /\ UNCHANGED <<argVars, imageVars, gridVars, paramVars, Landscape, hostCalls>>

\* World->SpawnActor returns null
SpawnFail ==
    /\ pc = "Spawn"
    /\ hostCalls' = Append(hostCalls, "SpawnActor")
    /\ pc' = "Done"
    /\ UNCHANGED <<argVars, imageVars, gridVars, paramVars, scaleVars,
                   Landscape, LogTemp>>

SpawnOk ==
    /\ pc = "Spawn"
    /\ hostCalls' = Append(hostCalls, "SpawnActor")
    /\ Landscape' = [Landscape EXCEPT !.spawned = TRUE]
    /\ pc' = "Configure"
    /\ UNCHANGED <<argVars, imageVars, gridVars, paramVars, scaleVars, LogTemp>>

Configure ==
    /\ pc = "Configure"
    /\ Landscape' = [Landscape EXCEPT !.ComponentSizeQuads = ComponentQuads,
                                      !.SubsectionSizeQuads = SubsectionQuads,
                                      !.NumSubsections = NumSubsections]
    /\ pc' = "SetScale"
    /\ UNCHANGED <<argVars, imageVars, gridVars, paramVars, scaleVars,
                   hostCalls, LogTemp>>

SetScale ==
    /\ pc = "SetScale"
    /\ Landscape' = [Landscape EXCEPT !.Scale = <<HorizontalScaleFactor,
                                                  HorizontalScaleFactor,
                                                  VerticalScaleFactor>>]
    /\ hostCalls' = Append(hostCalls, "SetActorScale3D")
    /\ pc' = "Import"
    /\ UNCHANGED <<argVars, imageVars, gridVars, paramVars, scaleVars, LogTemp>>

Import ==
    /\ pc = "Import"
    /\ Landscape' = [Landscape EXCEPT !.Import =
           [MinX |-> 0, MinY |-> 0, MaxX |-> SizeX - 1, MaxY |-> SizeY - 1,
            NumSubsections |-> NumSubsections,
            SubsectionQuads |-> SubsectionQuads,
            Height |-> HeightData]]
    /\ hostCalls' = Append(hostCalls, "Import")
    /\ pc' = "CreateInfo"
    /\ UNCHANGED <<argVars, imageVars, gridVars, paramVars, scaleVars, LogTemp>>

CreateInfo ==
    /\ pc = "CreateInfo"
    /\ Landscape' = [Landscape EXCEPT !.hasInfo = TRUE]
    /\ hostCalls' = Append(hostCalls, "CreateLandscapeInfo")
    /\ LogTemp' = Append(LogTemp, "Log: created")
    /\ pc' = "Done"
    /\ UNCHANGED <<argVars, imageVars, gridVars, paramVars, scaleVars>>

Next ==
    \/ WorldMissing \/ NotEditorBuild \/ Enter
    \/ LoadFileFail \/ LoadFileOk
    \/ SetCompressedFail \/ SetCompressedOk
    \/ ReadDimensions
    \/ GetRawFail \/ GetRawOk
    \/ Alloc
    \/ CopyCell \/ CopyOutOfRange \/ NextRow \/ CopyDone
    \/ DeriveParams \/ ComputeScales
    \/ SpawnFail \/ SpawnOk
    \/ Configure \/ SetScale \/ Import \/ CreateInfo

Spec == Init /\ [][Next]_vars

\* ------------------------------------------------------------- properties
Has(seq, e) == \E i \in 1..Len(seq) : seq[i] = e

IsPowerOfTwo(n) == \E k \in 0..30 : n = 2^k

PowersOfTwo == {2^k : k \in 0..30}

\* least power of two that is >= w
NextPowerOfTwo(w) ==
    CHOOSE p \in PowersOfTwo : p >= w /\ \A q \in PowersOfTwo : q >= w => p <= q

\* the integer nearest to sqrt(n): no other integer is strictly closer
NearestRoot(n) ==
    CHOOSE k \in 0..n : \A j \in (0..n) \ {k} :
        IF k > j THEN (k + j) * (k + j) <= 4 * n ELSE (k + j) * (k + j) >= 4 * n

Imported == Landscape.Import # <<>>

\* the copy loop has ended, normally or by the failed range check
ResizeEnded ==
    \/ pc \in {"Params", "Scales", "Spawn", "Configure", "SetScale", "Import",
               "CreateInfo", "Crashed"}
    \/ pc = "Done" /\ HeightData # <<>>

DecodeFailed ==
    \/ Has(LogTemp, "Error: load file")
    \/ Has(LogTemp, "Error: image wrapper")
    \/ Has(LogTemp, "Error: raw data")

BuilderTouched ==
    \/ Landscape # NoLandscape
    \/ \E c \in {"SpawnActor", "SetActorScale3D", "Import", "CreateLandscapeInfo"} :
          Has(hostCalls, c)

ParamsComputed ==
    \/ ComponentQuads # 0 \/ SubsectionQuads # 0 \/ NumSubsections # 0
    \/ GridSize # 0 \/ TotalSizeInUnrealUnits # 0 \/ VerticalScaleFactor # 0
    \/ HorizontalScaleFactor # [num |-> 0, den |-> 1]

\* C1: for every positive w and h the copy loop only touches cells with
\* y < targetSize and x < targetSize, every written index lies in
\* [0, targetSize^2), every read index lies in [0, w*h), and the resize
\* never ends in an error.
C1_CopyStaysInBounds ==
    /\ pc # "Crashed"
    /\ (pc = "Copy" /\ Y < OriginalSizeY /\ X < OriginalSizeX) =>
          /\ Y < SizeX /\ X < SizeX
          /\ 0 <= WriteIndex(Y, X) /\ WriteIndex(Y, X) < SizeX * SizeX
          /\ 0 <= ReadIndex(Y, X)
          /\ ReadIndex(Y, X) < OriginalSizeX * OriginalSizeY

\* C2: once the copy has ended, cell (x, y) of the targetSize x targetSize
\* grid holds the source sample (x, y) when x < w and y < h, and zero
\* everywhere else.
C2_TopLeftCopyZeroPadding ==
    ResizeEnded =>
        /\ Len(HeightData) = SizeX * SizeX
        /\ \A y \in 0..(SizeX - 1) : \A x \in 0..(SizeX - 1) :
              HeightData[y * SizeX + x + 1] =
                 IF x < OriginalSizeX /\ y < OriginalSizeY
                 THEN SrcData[y * OriginalSizeX + x + 1]
                 ELSE 0

\* a non-square, non-power-of-two image (3 wide, 2 high) went through the
\* whole pipeline and was padded on the right and at the bottom
C2_Witness ==
    /\ pc = "Done" /\ Imported
    /\ OriginalSizeX = 3 /\ OriginalSizeY = 2 /\ SizeX = 4
    /\ HeightData[5] = SrcData[4] /\ HeightData[4] = 0 /\ HeightData[16] = 0

\* C3: every grid handed to the builder is square with a power-of-two side
\* equal to nextPowerOfTwo(source width) whatever the source height is; its
\* length is side * side and the import extent is (0,0)..(side-1, side-1).
C3_SquarePowerOfTwoGrid ==
    Imported =>
        LET side == NextPowerOfTwo(OriginalSizeX)
            imp == Landscape.Import
        IN /\ IsPowerOfTwo(side)
           /\ SizeX = side /\ SizeY = side
           /\ Len(imp.Height) = side * side
           /\ imp.MinX = 0 /\ imp.MinY = 0
           /\ imp.MaxX = side - 1 /\ imp.MaxY = side - 1

\* a grid from an image whose height differs from its width was imported
C3_Witness ==
    /\ Imported /\ OriginalSizeX = 3 /\ OriginalSizeY = 1
    /\ Landscape.Import.MaxY = 3

\* C4: for every positive width w the computed int32 SizeX is a power of
\* two, is >= w and is < 2w.
C4_TightPowerOfTwo ==
    OriginalSizeX > 0 =>
        /\ IsPowerOfTwo(SizeX)
        /\ SizeX >= OriginalSizeX
        /\ SizeX \div 2 < OriginalSizeX

\* C5: for a square power-of-two source the resize is the identity: same
\* side, and every cell equals the source sample at the same index.
C5_IdentityOnPowerOfTwoSquare ==
    (ResizeEnded /\ OriginalSizeX = OriginalSizeY /\ IsPowerOfTwo(OriginalSizeX)) =>
        /\ SizeX = OriginalSizeX /\ SizeY = OriginalSizeY
        /\ HeightData = SrcData
        /\ Imported => Landscape.Import.Height = SrcData

\* a 4x4 source was resized and imported
C5_Witness ==
    /\ Imported /\ OriginalSizeX = 4 /\ OriginalSizeY = 4
    /\ Len(SrcData) = 16

\* C6: componentQuads = max(63, gridSize - 1), subsectionQuads =
\* componentQuads, numSubsections = 1 (gridSize 1 gives 63, 128 gives 127),
\* and exactly these values are configured on the landscape and passed to
\* its import.
C6_TerrainParams ==
    LET expected == IF SizeX - 1 > 63 THEN SizeX - 1 ELSE 63 IN
    /\ pc \in {"Scales", "Spawn", "Configure", "SetScale", "Import", "CreateInfo"} =>
          /\ ComponentQuads = expected
          /\ SubsectionQuads = expected
          /\ NumSubsections = 1
          /\ SizeX = 1 => ComponentQuads = 63
          /\ SizeX = 128 => ComponentQuads = 127
    /\ (Landscape.spawned /\ pc \in {"SetScale", "Import", "CreateInfo", "Done"}) =>
          /\ Landscape.ComponentSizeQuads = expected
          /\ Landscape.SubsectionSizeQuads = expected
          /\ Landscape.NumSubsections = 1
    /\ Imported =>
          /\ Landscape.Import.SubsectionQuads = expected
          /\ Landscape.Import.NumSubsections = 1

\* a 128-sample grid was configured with 127-quad components and imported
C6_Witness ==
    /\ Imported /\ SizeX = 128
    /\ Landscape.ComponentSizeQuads = 127

\* C7: horizontalScale * gridSize = 50000 * round(sqrt(numBlocks)) with
\* nearest-integer rounding (k*k blocks give k), and verticalScale is 25
\* whatever the inputs; the actor is scaled by exactly these factors.
C7_Scales ==
    /\ pc \in {"Spawn", "Configure", "SetScale", "Import", "CreateInfo"} =>
          /\ HorizontalScaleFactor.num * SizeX =
                50000 * NearestRoot(NumBlocks) * HorizontalScaleFactor.den
          /\ (\E k \in 1..NumBlocks : k * k = NumBlocks /\ GridSize # k) = FALSE
          /\ NumBlocks = 4 =>
                HorizontalScaleFactor.num * SizeX = 100000 * HorizontalScaleFactor.den
          /\ VerticalScaleFactor = 25
    /\ Landscape.Scale # <<>> =>
          Landscape.Scale = <<HorizontalScaleFactor, HorizontalScaleFactor, 25>>

\* three blocks (square root 1.73, rounded up to 2) on a 128-sample grid
C7_Witness ==
    /\ Landscape.Scale # <<>> /\ NumBlocks = 3 /\ SizeX = 128
    /\ GridSize = 2 /\ HorizontalScaleFactor = [num |-> 3125, den |-> 4]

\* C8: when a decode stage fails (file unreadable, not an image container,
\* no 16-bit grayscale samples) the run is over, no terrain parameter or
\* scale has been computed and the builder has not been touched.
C8_DecodeFailureExposesNothing ==
    DecodeFailed =>
        /\ pc = "Done"
        /\ ~ParamsComputed
        /\ ~BuilderTouched
        /\ HeightData = <<>>

\* the image was wrapped and sized, then yielded no grayscale samples
C8_Witness ==
    /\ pc = "Done" /\ Has(LogTemp, "Error: raw data")
    /\ SizeX = 4 /\ OriginalSizeY = 2

\* C9: without a world the run ends before any decoding work: the file is
\* never read, no image is decoded, no grid or parameter is computed and
\* the builder is never invoked.
C9_NoWorldNoWork ==
    ~World =>
        /\ hostCalls = <<>>
        /\ ImageWrapper = [Width |-> 0, Height |-> 0]
        /\ SizeX = 0 /\ SizeY = 0
        /\ SrcData = <<>> /\ HeightData = <<>>
        /\ ~ParamsComputed
        /\ ~BuilderTouched
        /\ pc \in {"Entry", "Done"}

\* a run without a world has returned, in an editor build
C9_Witness == ~World /\ WithEditor /\ pc = "Done"

====
